---- MODULE Spec2Model ----
(***************************************************************************)
(* Model of the quick_load / quick_dump management commands.               *)
(*                                                                         *)
(* The store is a PostgreSQL database reached through the Django ORM:      *)
(* every table has an integer primary key "id" fed by the sequence         *)
(* <table>_id_seq, one unique column "name" (the natural key, which is     *)
(* also the UniqueKeySpec of set_m2m and of the second pass), one foreign  *)
(* key "ref" (DEFERRABLE INITIALLY DEFERRED, so checked at COMMIT) and one *)
(* many-to-many association "tags".                                        *)
(*                                                                         *)
(* Optional values (Python None / SQL NULL) are sequences of length <= 1:  *)
(* None is <<>>, a present value v is <<v>>.                                *)
(***************************************************************************)
EXTENDS Integers, Sequences, FiniteSets, TLC

VARIABLES
    uniqueTogether, \* schema: kind -> whether its Meta declares unique_together
    fkNull,     \* schema: kind -> whether its foreign key column is nullable
    db,         \* committed store: [rows, links]
    tx,         \* the store as seen by the open transaction (= db when none is open)
    seq,        \* kind -> [last, called]: the row of <table>_id_seq
    seqUndo,    \* sequences as they were before the ALTER SEQUENCE of this transaction
    pc,         \* position of Command.handle
    fixture,    \* the files of the current run: a sequence of sequences of records
    fileIdx,    \* index of the next file of file_paths to process
    deferredQ,  \* objs_with_deferred_fields
    qIdx,       \* index of the next queued object (first or second pass)
    selfQ,      \* objs_with_self_deferred_fields
    hooks,      \* connection.run_on_commit: the registered on_commit callbacks
    cells,      \* per processed file: the closure cell (cls, not_with_deferred)
    broken,     \* connection.needs_rollback: a query failed outside a savepoint
    scopeExits, \* how many times DisableForeignkeyConstrain.__exit__ ran in this run
    outcome,    \* how the current run ended, "" while it runs
    runs,       \* number of runs started
    pre,        \* committed store when the current run started
    mainDb,     \* committed store right after the main transaction committed
    prev,       \* outcome, store and fixture of the run before the current one
    linkLog,    \* sequence of <<file, record, targets>>: every set() done by set_m2m
    inserted,   \* ids of rows inserted by bulk_create in this run, per kind
    trace,      \* the phases the current run went through, in order
    base_dir,   \* locator: the tree under settings.BASE_DIR, [files, dirs]
    cache_walk, \* locator: _cache_walk_directories, a sequence of [root, files]
    file_name,  \* locator: the file-name token being resolved
    files,      \* locator: the list `files` of _auto_find_chunk_files_with_abs_path
    index,      \* locator: the loop counter `index`
    lpc,        \* locator: position in _auto_find_chunk_files_with_abs_path
    qs,         \* dump: the rows of the dumped model's table
    size,       \* dump: the chunk size of _get_chunk_instances_from_queryset
    start,      \* dump: the offset `start` of the next chunk
    count,      \* dump: qs.count() taken before the first chunk
    chunk_index,\* dump: the value enumerate gives the next chunk
    model_name, \* dump: the model name of the command line, a sequence of characters
    save_to,    \* dump: the folder under BASE_DIR the files are saved in
    disk,       \* dump: the files of that folder, a sequence of [name, content]
    dpc         \* dump: position in Command.handle of quick_dump

vars == <<uniqueTogether, fkNull, db, tx, seq, seqUndo, pc, fixture, fileIdx, deferredQ, qIdx, selfQ,
          hooks, cells, broken, scopeExits, outcome, runs, pre, mainDb, prev, linkLog,
          inserted, trace, base_dir, cache_walk, file_name, files, index, lpc,
          qs, size, start, count, chunk_index, model_name, save_to, disk, dpc>>

loadVars == <<uniqueTogether, fkNull, db, tx, seq, seqUndo, pc, fixture, fileIdx, deferredQ, qIdx, selfQ,
              hooks, cells, broken, scopeExits, outcome, runs, pre, mainDb, prev,
              linkLog, inserted, trace>>

locVars == <<base_dir, cache_walk, file_name, files, index, lpc>>

dumpVars == <<qs, size, start, count, chunk_index, model_name, save_to, disk, dpc>>

-----------------------------------------------------------------------------
(* Schema *)

None == <<>>

Some(v) == <<v>>

Kinds == {"Node", "Group"}

\* Node.ref -> Node (a self reference), Group.ref -> Node
FkTarget(k) == "Node"

\* Node.tags -> Group, Group.tags -> Node
M2mTarget(k) == IF k = "Node" THEN "Group" ELSE "Node"

\* the sentinel written into a deferred NOT NULL foreign key
Placeholder == 0

-----------------------------------------------------------------------------
(* The store *)

EmptyTables == [rows |-> [k \in Kinds |-> {}], links |-> [k \in Kinds |-> {}]]

FreshSeq == [last |-> 1, called |-> FALSE]

\* nextval(): the value the next ordinary insert receives
NextVal(s) == IF s.called THEN s.last + 1 ELSE s.last

AfterNextVal(s) == [last |-> NextVal(s), called |-> TRUE]

Ids(st, k) == {r.id : r \in st.rows[k]}

MaxOf(S) == CHOOSE m \in S : \A x \in S : x <= m

\* Model.objects.get(name=n) / get_by_natural_key(n): the pk, or None
Lookup(st, k, n) ==
    IF \E r \in st.rows[k] : r.name = n
    THEN Some((CHOOSE r \in st.rows[k] : r.name = n).id)
    ELSE None

RowById(st, k, i) == CHOOSE r \in st.rows[k] : r.id = i

\* a unique constraint (primary key or natural key) rejects the row
Conflicts(st, k, row) == \E r \in st.rows[k] : r.id = row.id \/ r.name = row.name

\* every foreign key of every row points at an existing row: the deferred
\* constraints as PostgreSQL checks them at COMMIT
FkOk(st) ==
    \A k \in Kinds : \A r \in st.rows[k] :
        IF r.ref = None THEN TRUE ELSE r.ref[1] \in Ids(st, FkTarget(k))

\* related_manager.add(*object_list): what an additive linker would do; the
\* variant C5 is told apart from
AddLinks(st, k, owner, targets) ==
    [st EXCEPT !.links[k] = @ \cup {<<owner, t>> : t \in targets}]

\* related_manager.set(object_list): the association set is replaced
SetLinks(st, k, owner, targets) ==
    [st EXCEPT !.links[k] =
        {l \in @ : l[1] # owner} \cup {<<owner, t>> : t \in targets}]

LinksOf(st, k, owner) == {l[2] : l \in {m \in st.links[k] : m[1] = owner}}

-----------------------------------------------------------------------------
(* RecordDeserializer: serializers.deserialize(..., handle_forward_references=True) *)

\* One fixture record -> one DeserializedObject.  A natural-key reference whose
\* target is not in the store yet is deferred; a record without pk takes the pk
\* of the row that already carries its natural key.
DeserializeRecord(rec, view, src) ==
    LET k == rec.kind
        fk == IF rec.ref = None THEN None ELSE Lookup(view, FkTarget(k), rec.ref[1])
        tagIds == IF rec.tags = None THEN {}
                  ELSE {Lookup(view, M2mTarget(k), n) : n \in rec.tags[1]}
        m2mDeferred == rec.tags # None /\ None \in tagIds
    IN  [kind |-> k,
         pk   |-> IF rec.pk # None THEN rec.pk ELSE Lookup(view, k, rec.name),
         name |-> rec.name,
         ref  |-> fk,
         dfk  |-> IF rec.ref # None /\ fk = None THEN rec.ref ELSE None,
         m2m  |-> IF rec.tags # None /\ ~m2mDeferred
                  THEN Some({t[1] : t \in tagIds}) ELSE None,
         dm2m |-> IF m2mDeferred THEN rec.tags ELSE None,
         src  |-> src]

Deserialize(file, view, f) ==
    [i \in 1..Len(file) |-> DeserializeRecord(file[i], view, <<f, i>>)]

\* only a deferred foreign key counts as a deferred field: the variant C18 is
\* told apart from
HasDeferredFk(o) == o.dfk # None

\* obj.deferred_fields is not empty
HasDeferred(o) == o.dfk # None \/ o.dm2m # None

RECURSIVE SelectSeq2(_, _, _)
\* the subsequence of s whose elements are in the set keep
SelectSeq2(s, keep, i) ==
    IF i > Len(s) THEN <<>>
    ELSE (IF s[i] \in keep THEN <<s[i]>> ELSE <<>>) \o SelectSeq2(s, keep, i + 1)

Filter(s, keep) == SelectSeq2(s, keep, 1)

Range(s) == {s[i] : i \in 1..Len(s)}

RECURSIVE KindOrderFrom(_, _, _)
\* orm_class_obj_map.keys(): the kinds in order of first appearance
KindOrderFrom(items, i, seen) ==
    IF i > Len(items) THEN <<>>
    ELSE IF items[i].kind \in seen THEN KindOrderFrom(items, i + 1, seen)
    ELSE <<items[i].kind>> \o KindOrderFrom(items, i + 1, seen \cup {items[i].kind})

KindOrder(items) == KindOrderFrom(items, 1, {})

-----------------------------------------------------------------------------
(* BulkInserter: _bulk_create_from_fixture *)

\* the sentinel for every deferred foreign key, nullable or not: the variant
\* C9 is told apart from
PlaceholderAlways(o) ==
    IF o.dfk # None THEN Some(Placeholder) ELSE o.ref

\* lines 62-67: a deferred foreign key that is NOT NULL gets the sentinel,
\* a nullable one stays unset
PlaceholderFor(o) ==
    IF o.dfk # None /\ ~fkNull[o.kind] THEN Some(Placeholder) ELSE o.ref

WithPlaceholder(o) == [o EXCEPT !.ref = PlaceholderFor(o)]

RECURSIVE InsertAll(_, _, _, _)
\* INSERT ... ON CONFLICT DO NOTHING of objs, in order.  acc = [st, seq, err, ins].
\* Every row without pk draws nextval(), also one that is then skipped; a NULL in
\* a NOT NULL column fails the statement (IntegrityError).
InsertAll(acc, k, objs, i) ==
    IF acc.err \/ i > Len(objs) THEN acc
    ELSE LET o == objs[i]
             id == IF o.pk = None THEN NextVal(acc.seq[k]) ELSE o.pk[1]
             seq2 == IF o.pk = None THEN [acc.seq EXCEPT ![k] = AfterNextVal(@)]
                     ELSE acc.seq
             row == [id |-> id, name |-> o.name, ref |-> o.ref]
         IN  IF o.ref = None /\ ~fkNull[k]
             THEN [acc EXCEPT !.seq = seq2, !.err = TRUE]
             ELSE IF Conflicts(acc.st, k, row)
             THEN InsertAll([acc EXCEPT !.seq = seq2], k, objs, i + 1)
             ELSE InsertAll([acc EXCEPT !.seq = seq2,
                                        !.st.rows[k] = @ \cup {row},
                                        !.ins[k] = @ \cup {id}], k, objs, i + 1)

\* cls.objects.bulk_create(instances, ignore_conflicts=True): the objects with a
\* pk are inserted first, then those without, one INSERT statement each.  A
\* statement that fails inserts none of its rows; the rows of the statement
\* before it stay in the open transaction.
BulkCreate(acc, k, objs) ==
    LET withPk == Filter(objs, {o \in Range(objs) : o.pk # None})
        noPk == Filter(objs, {o \in Range(objs) : o.pk = None})
        first == InsertAll(acc, k, withPk, 1)
        second == InsertAll(first, k, noPk, 1)
    IN  IF first.err THEN [acc EXCEPT !.seq = first.seq, !.err = TRUE]
        ELSE IF second.err THEN [first EXCEPT !.seq = second.seq, !.err = TRUE]
        ELSE second

RECURSIVE PerKind(_, _, _, _, _)
\* the loop of lines 51-104 over orm_class_obj_map.items().
\* acc = [st, seq, err, ins, deferred, hooks, cell]
PerKind(acc, items, order, j, f) ==
    IF acc.err \/ j > Len(order) THEN acc
    ELSE LET k == order[j]
             objs == Filter(items, {o \in Range(items) : o.kind = k})
             with_deferred == Filter(objs, {o \in Range(objs) : HasDeferred(o)})
             not_with_deferred == Filter(objs, {o \in Range(objs) : ~HasDeferred(o)})
             instances == [i \in 1..Len(objs) |-> WithPlaceholder(objs[i])]
             b == BulkCreate([st |-> acc.st, seq |-> acc.seq, err |-> FALSE,
                              ins |-> acc.ins], k, instances)
             queued == [i \in 1..Len(with_deferred) |-> WithPlaceholder(with_deferred[i])]
         IN  IF b.err
             THEN [acc EXCEPT !.st = b.st, !.seq = b.seq, !.ins = b.ins, !.err = TRUE,
                              !.deferred = @ \o queued,
                              !.cell = [cls |-> k, objs |-> not_with_deferred]]
             ELSE PerKind([acc EXCEPT !.st = b.st, !.seq = b.seq, !.ins = b.ins,
                                      !.deferred = @ \o queued,
                                      !.hooks = Append(@, [frame |-> f, kind |-> k]),
                                      !.cell = [cls |-> k, objs |-> not_with_deferred]],
                          items, order, j + 1, f)

\* _bulk_create_from_fixture(fname) on the store st
BulkCreateFromFixture(st, sq, ins, file, f) ==
    LET items == Deserialize(file, st, f)
    IN  PerKind([st |-> st, seq |-> sq, err |-> FALSE, ins |-> ins, deferred |-> <<>>,
                 hooks |-> <<>>, cell |-> [cls |-> "Node", objs |-> <<>>]],
                items, KindOrder(items), 1, f)

-----------------------------------------------------------------------------
(* DeferredResolver: DeserializedObject.save_deferred_fields / save *)

\* Model.save_base(obj, raw=True): UPDATE when obj has a pk whose row exists,
\* INSERT otherwise.  Returns [st, seq, err, id]; err is an IntegrityError
\* (unique or NOT NULL violation), which leaves the tables as they were.
SaveBase(st, sq, o) ==
    LET k == o.kind
        update == o.pk # None /\ o.pk[1] \in Ids(st, k)
        id == IF o.pk # None THEN o.pk[1] ELSE NextVal(sq[k])
        sq2 == IF o.pk = None THEN [sq EXCEPT ![k] = AfterNextVal(@)] ELSE sq
        row == [id |-> id, name |-> o.name, ref |-> o.ref]
        others == {r \in st.rows[k] : r.id # id}
        clash == IF update THEN \E r \in others : r.name = o.name
                 ELSE Conflicts(st, k, row)
    IN  IF clash \/ (o.ref = None /\ ~fkNull[k])
        THEN [st |-> st, seq |-> sq2, err |-> TRUE, id |-> id]
        ELSE [st |-> [st EXCEPT !.rows[k] = others \cup {row}],
              seq |-> sq2, err |-> FALSE, id |-> id]

\* some deferred reference of o names a row that is not in the store
Unresolvable(st, o) ==
    \/ o.dfk # None /\ Lookup(st, FkTarget(o.kind), o.dfk[1]) = None
    \/ o.dm2m # None /\ \E n \in o.dm2m[1] : Lookup(st, M2mTarget(o.kind), n) = None

\* the value save_deferred_fields stores in the foreign key attribute
ResolvedRef(st, o) ==
    IF o.dfk # None THEN Lookup(st, FkTarget(o.kind), o.dfk[1]) ELSE o.ref

\* obj.save_deferred_fields(): res is "ok", "IntegrityError" (from the save) or
\* "DeserializationError" (a reference that cannot be resolved).  m2m_data is
\* reset first, so only a deferred association is set after the save.
SaveDeferredFields(st, sq, o) ==
    IF Unresolvable(st, o)
    THEN [st |-> st, seq |-> sq, res |-> "DeserializationError"]
    ELSE LET s == SaveBase(st, sq, [o EXCEPT !.ref = ResolvedRef(st, o)])
             targets == {Lookup(st, M2mTarget(o.kind), n)[1] : n \in o.dm2m[1]}
         IN  IF s.err THEN [st |-> st, seq |-> s.seq, res |-> "IntegrityError"]
             ELSE [st |-> IF o.dm2m # None
                          THEN SetLinks(s.st, o.kind, s.id, targets) ELSE s.st,
                   seq |-> s.seq, res |-> "ok"]

\* lines 78-81 and 252-256: when the kind declares unique_together, the keys of
\* fields_to_filter are its tuples of field names and not attribute names, so
\* getattr(obj.object, f) (lines 91, 262) raises TypeError before any lookup
TupleKeys(cls) == uniqueTogether[cls]

\* lines 251-268: re-locate the owning row by its unique key, then
\* save_deferred_fields on it
SecondPass(st, sq, o) ==
    LET id == Lookup(st, o.kind, o.name)
    IN  IF TupleKeys(o.kind) THEN [st |-> st, seq |-> sq, res |-> "TypeError"]
        ELSE IF id = None THEN [st |-> st, seq |-> sq, res |-> "DoesNotExist"]
        ELSE SaveDeferredFields(st, sq,
                [o EXCEPT !.pk = id, !.ref = RowById(st, o.kind, id[1]).ref])

-----------------------------------------------------------------------------
(* ManyToManyLinker: set_m2m, run by the on_commit callbacks *)

\* line 98: the lambda reads cls and not_with_deferred when it is called, that
\* is the values the enclosing call's loop left in them
HookBinding(h) == cells[h.frame]

RECURSIVE SetM2m(_, _, _, _)
\* set_m2m(cls, objs) from object i on.  acc = [st, err, exc, log]
SetM2m(acc, cls, objs, i) ==
    IF acc.err \/ i > Len(objs) THEN acc
    ELSE LET o == objs[i]
             id == Lookup(acc.st, cls, o.name)
         IN  IF o.m2m = None THEN SetM2m(acc, cls, objs, i + 1)
             ELSE IF TupleKeys(cls) THEN [acc EXCEPT !.err = TRUE, !.exc = "TypeError"]
             ELSE IF id = None THEN [acc EXCEPT !.err = TRUE, !.exc = "DoesNotExist"]
             ELSE SetM2m([acc EXCEPT !.st = SetLinks(@, cls, id[1], o.m2m[1]),
                                     !.log = Append(@, <<o.src, o.m2m[1]>>)],
                         cls, objs, i + 1)

-----------------------------------------------------------------------------
(* ConstraintScope: DisableForeignkeyConstrain.__exit__ *)

\* a release that restarts the sequence of every table that has rows, whatever
\* its last_value: the variant C19 is told apart from
ResyncAlways(s, ids) ==
    IF ids # {} THEN [last |-> MaxOf(ids) + 1, called |-> FALSE] ELSE s

\* lines 164-177 for one table: the sequence is restarted at max(id)+1 only when
\* its last_value is 1 and the table has rows
ResyncOne(s, ids) ==
    IF s.last = 1 /\ ids # {}
    THEN [last |-> MaxOf(ids) + 1, called |-> FALSE]
    ELSE s

Resync(sq, st) == [k \in Kinds |-> ResyncOne(sq[k], Ids(st, k))]

-----------------------------------------------------------------------------
(* FixtureLocator: _get_abs_path_of, _auto_find_chunk_files_with_abs_path.   *)
(* A file name is a sequence of characters.                                  *)

Min(S) == CHOOSE m \in S : \A x \in S : m <= x

\* os.path.splitext(p)[0] for a name without directory part: the name up to its
\* last dot, unless only dots precede that dot
SplitExt(p) ==
    LET dots == {i \in 1..Len(p) : p[i] = "."}
    IN  IF dots = {} THEN p
        ELSE IF \E i \in 1..(MaxOf(dots) - 1) : p[i] # "."
        THEN SubSeq(p, 1, MaxOf(dots) - 1)
        ELSE p

Marker == <<"_", "*">>

\* line 186: file_name.endswith('_*')
EndsWithMarker(s) == Len(s) >= 2 /\ SubSeq(s, Len(s) - 1, Len(s)) = Marker

\* line 189: file_name.split('_*')[0], the text before the first marker
BeforeMarker(s) ==
    LET hits == {i \in 1..(Len(s) - 1) : SubSeq(s, i, i + 1) = Marker}
    IN  IF hits = {} THEN s ELSE SubSeq(s, 1, Min(hits) - 1)

DigitChars == <<"0", "1", "2", "3", "4", "5", "6", "7", "8", "9">>

RECURSIVE Digits(_)
\* str(n) for n >= 0
Digits(n) ==
    IF n < 10 THEN <<DigitChars[n + 1]>>
    ELSE Digits(n \div 10) \o <<DigitChars[(n % 10) + 1]>>

\* line 194: f'{base_name}_{index}'
ChunkName(base_name, i) == base_name \o <<"_">> \o Digits(i)

\* a walk that prunes nothing: the variant C13 is told apart from
NoExcludes == {}

\* line 112
Excludes == {"upload", "scripts", "static"}

\* walk_under_directory(folder) for a folder with files and one level of
\* sub-folders: the folder itself, then every sub-folder that is not excluded
WalkUnderDirectory(folder) ==
    <<[root |-> <<>>, files |-> folder.files]>> \o
    [i \in 1..Len(Filter(folder.dirs, {d \in Range(folder.dirs) : d.name \notin Excludes})) |->
        LET d == Filter(folder.dirs, {e \in Range(folder.dirs) : e.name \notin Excludes})[i]
        IN  [root |-> <<d.name>>, files |-> d.files]]

RECURSIVE PathsFrom(_, _)
\* the paths os.path.join(root, f) of a walk, in the order lines 127-128 visit them
PathsFrom(walk, i) ==
    IF i > Len(walk) THEN <<>>
    ELSE [j \in 1..Len(walk[i].files) |-> [root |-> walk[i].root, name |-> walk[i].files[j]]]
         \o PathsFrom(walk, i + 1)

Paths(walk) == PathsFrom(walk, 1)

\* _get_abs_path_of(fname): the first file of the walk whose name without
\* extension equals fname without extension; None stands for the exception
GetAbsPathOf(walk, fname) ==
    LET ps == Paths(walk)
        hits == {i \in 1..Len(ps) : SplitExt(ps[i].name) = SplitExt(fname)}
    IN  IF hits = {} THEN None ELSE Some(ps[Min(hits)])

-----------------------------------------------------------------------------
(* Inputs: fixture files and the stores a run can start from *)

MaxRuns == 2

MaxSeq == 2

Rec(k, pk, n, ref, tags) == [kind |-> k, pk |-> pk, name |-> n, ref |-> ref, tags |-> tags]

\* the i-th record of a fixture carries no pk or the explicit pk i + 1
PkChoices(i) == {None, Some(i + 1)}

RefChoices == {None, Some("a"), Some("b"), Some("c")}

PairRefs == {None, Some("a"), Some("b")}

PairTags == {None, Some({"a"}), Some({"a", "b"})}

File1(r) == <<<<r>>>>

\* two records in one file, or in two files loaded in this order
Layouts(r1, r2) == {<<<<r1, r2>>>>, <<<<r1>>, <<r2>>>>}

\* one record named a: every kind, pk, reference and association choice
Singles ==
    {File1(Rec(k, pk, "a", ref, t)) :
        k \in Kinds, pk \in PkChoices(1), ref \in RefChoices,
        t \in {None, Some({"a", "b"})}}

\* two records a and b without associations, every combination of references
\* between them; both carry a pk or neither does
RefPairs ==
    UNION {Layouts(Rec(ks[1], IF e THEN Some(2) ELSE None, "a", r1, None),
                   Rec(ks[2], IF e THEN Some(3) ELSE None, "b", r2, None)) :
        ks \in {<<"Node", "Node">>, <<"Node", "Group">>, <<"Group", "Node">>},
        e \in BOOLEAN, r1 \in PairRefs, r2 \in PairRefs}

\* the mutual reference with b first in the file
SwappedCycles ==
    UNION {Layouts(Rec("Node", IF e THEN Some(2) ELSE None, "b", Some("a"), None),
                   Rec("Node", IF e THEN Some(3) ELSE None, "a", Some("b"), None)) :
        e \in BOOLEAN}

\* two records of different kinds with associations
TagPairs ==
    UNION {Layouts(Rec(ks[1], None, "a", r1, t1), Rec(ks[2], None, "b", Some("a"), t2)) :
        ks \in {<<"Node", "Group">>, <<"Group", "Node">>},
        r1 \in {Some("a"), Some("b")},
        t1 \in PairTags, t2 \in PairTags \ {None}}

\* two records of one kind, the first with an explicit pk, the second without
MixedPairs ==
    UNION {Layouts(Rec("Node", Some(2), "a", r, None), Rec("Node", None, "b", Some("a"), None)) :
        r \in {None, Some("a")}}

Fixtures == Singles \cup RefPairs \cup SwappedCycles \cup TagPairs \cup MixedPairs

\* a corrected fixture: the association targets {a, b} become {a, c} and back
CorrectedTags(t) ==
    IF t = Some({"a", "b"}) THEN Some({"a", "c"})
    ELSE IF t = Some({"a", "c"}) THEN Some({"a", "b"})
    ELSE t

Corrected(fx) ==
    [f \in 1..Len(fx) |->
        [i \in 1..Len(fx[f]) |-> [fx[f][i] EXCEPT !.tags = CorrectedTags(@)]]]

\* rows that earlier loads or ordinary inserts left behind; every row's foreign
\* key points at itself or is resolvable
SelfRow(i, n) == [id |-> i, name |-> n, ref |-> Some(1)]

StoredRows ==
    { [Node |-> {}, Group |-> {}],
      [Node |-> {SelfRow(1, "a")}, Group |-> {}],
      [Node |-> {SelfRow(1, "a"), SelfRow(2, "b"), SelfRow(3, "c")},
       Group |-> {SelfRow(1, "a"), SelfRow(2, "b"), SelfRow(3, "c")}],
      [Node |-> {[id |-> 2, name |-> "c", ref |-> Some(2)],
                 [id |-> 4, name |-> "d", ref |-> Some(2)]},
       Group |-> {}] }

\* a sequence never used, or one whose last value was handed out.  Rows that
\* were written with explicit keys did not move it, so it may be behind them.
SeqStates == {FreshSeq} \cup {[last |-> n, called |-> TRUE] : n \in 1..MaxSeq}

Idle ==
    /\ pc = "idle" /\ fixture = <<>> /\ fileIdx = 1 /\ deferredQ = <<>> /\ qIdx = 1
    /\ selfQ = <<>> /\ hooks = <<>> /\ cells = <<>> /\ broken = FALSE
    /\ scopeExits = 0 /\ outcome = "" /\ runs = 0 /\ linkLog = <<>>
    /\ inserted = [k \in Kinds |-> {}] /\ trace = <<>>

NoFolder == [files |-> <<>>, dirs |-> <<>>]

LocIdle == base_dir = NoFolder /\ cache_walk = <<>> /\ file_name = <<>> /\ files = <<>> /\ index = 0 /\ lpc = "off"

\* quick_dump is not running
DumpIdle ==
    /\ qs = {} /\ size = 1 /\ start = 0 /\ count = 0 /\ chunk_index = 0
    /\ model_name = <<>> /\ save_to = "" /\ disk = <<>> /\ dpc = "off"

Init ==
    /\ fkNull \in {[k \in Kinds |-> b] : b \in BOOLEAN}
    /\ uniqueTogether \in {[k \in Kinds |-> b] : b \in BOOLEAN}
    /\ \E rows \in StoredRows : db = [rows |-> rows, links |-> [k \in Kinds |-> {}]]
    /\ tx = db
    /\ \E s \in SeqStates : seq = [k \in Kinds |-> s]
    /\ seqUndo = seq
    /\ pre = db /\ mainDb = db
    /\ prev = [outcome |-> "", db |-> db, fixture |-> <<>>]
    /\ Idle
    /\ LocIdle
    /\ DumpIdle

\* the locator probes the indices 0..MaxIndex of a series
MaxIndex == 4

Json(stem) == stem \o <<".", "j", "s", "o", "n">>

\* the files the project folder itself may hold, in directory order
PoolFiles ==
    <<Json(ChunkName(<<"w">>, 0)), Json(ChunkName(<<"w">>, 1)), Json(ChunkName(<<"w">>, 2)),
      Json(ChunkName(<<"a", ".", "b">>, 0)), Json(<<"a">>)>>

\* a project folder: any choice of the pool files, an excluded folder and an
\* app folder that may each hold one more chunk of the series w
Folders ==
    {[files |-> Filter(PoolFiles, S),
      dirs |-> <<[name |-> x, files |-> sf], [name |-> "app", files |-> af]>>] :
        S \in SUBSET Range(PoolFiles),
        x \in {"upload", "scripts", "static"},
        sf \in {<<>>, <<Json(ChunkName(<<"w">>, 1))>>},
        af \in {<<>>, <<Json(ChunkName(<<"w">>, 2))>>}}

\* the tokens of the command line: two series, and single names with and
\* without extension, present or not
Tokens ==
    {<<"w">> \o Marker, <<"a", ".", "b">> \o Marker, ChunkName(<<"w">>, 1),
     Json(ChunkName(<<"w">>, 1)), <<"x">>}

\* the locator is about to resolve one token against the cached walk
InitLocate ==
    /\ fkNull = [k \in Kinds |-> TRUE]
    /\ uniqueTogether = [k \in Kinds |-> FALSE]
    /\ db = EmptyTables /\ tx = db
    /\ seq = [k \in Kinds |-> FreshSeq] /\ seqUndo = seq
    /\ pre = db /\ mainDb = db
    /\ prev = [outcome |-> "", db |-> db, fixture |-> <<>>]
    /\ Idle
    /\ base_dir \in Folders
    /\ cache_walk = WalkUnderDirectory(base_dir)
    /\ file_name \in Tokens
    /\ files = <<>> /\ index = 0 /\ lpc = "start"
    /\ DumpIdle

-----------------------------------------------------------------------------
(* transaction.atomic: what leaving the block with an exception does *)

\* a block that is not atomic keeps what was written: the variant C7 is told
\* apart from
WithoutRollback(committed, working) == working

\* the tables after ROLLBACK: the committed ones
AfterRollback(committed, working) == committed

\* callbacks that outlive the rollback: the variant C10 is told apart from
KeptHooks(h) == h

\* connection.run_on_commit after ROLLBACK: the callbacks are discarded
RolledBackHooks(h) == <<>>

-----------------------------------------------------------------------------
(* Command.handle, step by step *)

Ended == pc \in {"idle", "done", "failed"}

\* lines 215-226: a run starts; the main transaction and the scope are entered
StartRun ==
    /\ Ended
    /\ runs < MaxRuns
    /\ \E fx \in (IF runs = 0 THEN Fixtures ELSE {fixture, Corrected(fixture)}) :
          fixture' = fx
    /\ prev' = [outcome |-> outcome, db |-> db, fixture |-> fixture]
    /\ runs' = runs + 1
    /\ pc' = "insert"
    /\ pre' = db /\ tx' = db /\ mainDb' = db /\ seqUndo' = seq
    /\ fileIdx' = 1 /\ deferredQ' = <<>> /\ qIdx' = 1 /\ selfQ' = <<>>
    /\ hooks' = <<>> /\ cells' = <<>> /\ broken' = FALSE /\ scopeExits' = 0
    /\ outcome' = "" /\ linkLog' = <<>> /\ inserted' = [k \in Kinds |-> {}]
    /\ trace' = <<"start">>
    /\ UNCHANGED <<uniqueTogether, fkNull, db, seq>>
    /\ UNCHANGED <<locVars, dumpVars>>

\* lines 227-230: one file goes through _bulk_create_from_fixture.  An
\* IntegrityError of bulk_create leaves the loop and the scope; the rows and
\* the on_commit callbacks of the kinds handled before it stay with the open
\* transaction until it is rolled back.
BulkCreateFile ==
    /\ pc = "insert"
    /\ fileIdx <= Len(fixture)
    /\ LET r == BulkCreateFromFixture(tx, seq, inserted, fixture[fileIdx], fileIdx)
           queue == deferredQ \o r.deferred
       IN  /\ seq' = r.seq
           /\ IF r.err
              THEN /\ outcome' = "IntegrityError"
                   /\ broken' = TRUE
                   /\ pc' = "release"
                   /\ tx' = r.st
                   /\ inserted' = r.ins
                   /\ hooks' = hooks \o r.hooks
                   /\ cells' = Append(cells, r.cell)
                   /\ UNCHANGED <<deferredQ, fileIdx>>
              ELSE /\ tx' = r.st
                   /\ inserted' = r.ins
                   /\ deferredQ' = queue
                   /\ hooks' = hooks \o r.hooks
                   /\ cells' = Append(cells, r.cell)
                   /\ fileIdx' = fileIdx + 1
                   /\ pc' = IF fileIdx < Len(fixture) THEN "insert"
                            ELSE IF queue # <<>> THEN "resolve" ELSE "release"
                   /\ UNCHANGED <<outcome, broken>>
    /\ trace' = Append(trace, "insert")
    /\ UNCHANGED <<uniqueTogether, fkNull, db, seqUndo, fixture, qIdx, selfQ, scopeExits, runs, pre,
                   mainDb, prev, linkLog>>
    /\ UNCHANGED <<locVars, dumpVars>>

\* a first pass that catches nothing: the variant C14 is told apart from
ToleratedNone(res) == FALSE

\* a first pass that catches every failure: the variant C6 is told apart from
ToleratedAny(res) == res # "ok"

\* line 238: the failure of a save that the first pass catches
Tolerated(res) == res = "IntegrityError"

Fatal(res) == res # "ok" /\ ~Tolerated(res)

\* lines 234-244: one queued object of the first pass, inside its savepoint
FirstPassStep ==
    /\ pc = "resolve"
    /\ qIdx <= Len(deferredQ)
    /\ LET o == deferredQ[qIdx]
           r == SaveDeferredFields(tx, seq, o)
           last == qIdx = Len(deferredQ)
       IN  /\ seq' = r.seq
           /\ tx' = r.st
           /\ selfQ' = IF Tolerated(r.res) THEN Append(selfQ, o) ELSE selfQ
           /\ outcome' = IF Fatal(r.res) THEN r.res ELSE outcome
           /\ pc' = IF Fatal(r.res) \/ last THEN "release" ELSE "resolve"
    /\ qIdx' = qIdx + 1
    /\ trace' = Append(trace, "resolve")
    /\ UNCHANGED <<uniqueTogether, fkNull, db, seqUndo, fixture, fileIdx, deferredQ, hooks, cells, broken,
                   scopeExits, runs, pre, mainDb, prev, linkLog, inserted>>
    /\ UNCHANGED <<locVars, dumpVars>>

\* lines 157-182: __exit__ of the scope, on the normal and on the error path.
\* After a failed query outside a savepoint the connection refuses the first
\* query of __exit__, which then raises before it has resynchronized anything
\* and before line 182 closes the cursor.
ScopeExit ==
    /\ pc = "release"
    /\ scopeExits' = scopeExits + 1
    /\ seqUndo' = seq
    /\ IF broken
       THEN /\ outcome' = "TransactionManagementError"
            /\ pc' = "rollback"
            /\ trace' = Append(trace, "release-raised")
            /\ UNCHANGED seq
       ELSE /\ seq' = Resync(seq, tx)
            /\ pc' = IF outcome = "" THEN "commit" ELSE "rollback"
            /\ trace' = Append(trace, "release")
            /\ UNCHANGED outcome
    /\ UNCHANGED <<uniqueTogether, fkNull, db, tx, fixture, fileIdx, deferredQ, qIdx, selfQ, hooks, cells,
                   broken, runs, pre, mainDb, prev, linkLog, inserted>>
    /\ UNCHANGED <<locVars, dumpVars>>

\* lines 160-177: the store refuses a statement of __exit__ (the role may not
\* read or alter the sequence, the connection is lost).  Nothing catches the
\* error: it leaves __exit__ before line 182 and then the main atomic block.
ScopeExitFails ==
    /\ pc = "release"
    /\ ~broken
    /\ scopeExits' = scopeExits + 1
    /\ seqUndo' = seq
    /\ outcome' = "DatabaseError"
    /\ pc' = "rollback"
    /\ trace' = Append(trace, "release-raised")
    /\ UNCHANGED <<uniqueTogether, fkNull, db, tx, seq, fixture, fileIdx, deferredQ, qIdx, selfQ, hooks, cells,
                   broken, runs, pre, mainDb, prev, linkLog, inserted>>
    /\ UNCHANGED <<locVars, dumpVars>>

\* a second pass that starts before the callbacks of the commit have run: the
\* variant C17 is told apart from
SecondPassFirst(h, q) ==
    IF q # <<>> THEN "pass2" ELSE IF h # <<>> THEN "hooks" ELSE "done"

\* where handle goes once the main transaction has committed: the on_commit
\* callbacks h run as part of the commit, line 247 is reached after them
AfterCommit(h, q) ==
    IF h # <<>> THEN "hooks" ELSE IF q # <<>> THEN "pass2" ELSE "done"

\* line 225, exit of the main atomic block without exception: COMMIT, at which
\* the deferred foreign keys are checked
MainCommit ==
    /\ pc = "commit"
    /\ FkOk(tx)
    /\ db' = tx
    /\ mainDb' = tx
    /\ qIdx' = 1
    /\ pc' = AfterCommit(hooks, selfQ)
    /\ outcome' = IF AfterCommit(hooks, selfQ) = "done" THEN "ok" ELSE outcome
    /\ trace' = Append(trace, "commit")
    /\ UNCHANGED <<uniqueTogether, fkNull, tx, seq, seqUndo, fixture, fileIdx, deferredQ, selfQ, hooks,
                   cells, broken, scopeExits, runs, pre, prev, linkLog, inserted>>
    /\ UNCHANGED <<locVars, dumpVars>>

\* the COMMIT fails on a dangling foreign key: everything is rolled back
MainCommitFails ==
    /\ pc = "commit"
    /\ ~FkOk(tx)
    /\ db' = AfterRollback(db, tx)
    /\ tx' = AfterRollback(db, tx)
    /\ seq' = seqUndo
    /\ hooks' = RolledBackHooks(hooks)
    /\ outcome' = "IntegrityError"
    /\ pc' = IF RolledBackHooks(hooks) = <<>> THEN "failed" ELSE "hooks"
    /\ trace' = Append(trace, "rollback")
    /\ UNCHANGED <<uniqueTogether, fkNull, seqUndo, fixture, fileIdx, deferredQ, qIdx, selfQ, cells,
                   broken, scopeExits, runs, pre, mainDb, prev, linkLog, inserted>>
    /\ UNCHANGED <<locVars, dumpVars>>

\* line 225, exit of the main atomic block with an exception: ROLLBACK; the
\* on_commit callbacks are discarded
MainRollback ==
    /\ pc = "rollback"
    /\ db' = AfterRollback(db, tx)
    /\ tx' = AfterRollback(db, tx)
    /\ seq' = seqUndo
    /\ hooks' = RolledBackHooks(hooks)
    /\ pc' = IF RolledBackHooks(hooks) = <<>> THEN "failed" ELSE "hooks"
    /\ trace' = Append(trace, "rollback")
    /\ UNCHANGED <<uniqueTogether, fkNull, seqUndo, fixture, fileIdx, deferredQ, qIdx, selfQ, cells,
                   broken, scopeExits, outcome, runs, pre, mainDb, prev, linkLog, inserted>>
    /\ UNCHANGED <<locVars, dumpVars>>

\* after the COMMIT: the next on_commit callback runs set_m2m in autocommit mode.
\* An exception of it (DoesNotExist of the lookup, TypeError of getattr) leaves
\* handle; the callbacks left are dropped.
RunHook ==
    /\ pc = "hooks"
    /\ hooks # <<>>
    /\ LET b == HookBinding(Head(hooks))
           r == SetM2m([st |-> db, err |-> FALSE, exc |-> "", log |-> linkLog],
                       b.cls, b.objs, 1)
       IN  /\ db' = r.st
           /\ tx' = r.st
           /\ linkLog' = r.log
           /\ IF r.err
              THEN /\ hooks' = <<>>
                   /\ outcome' = r.exc
                   /\ pc' = "failed"
              ELSE /\ hooks' = Tail(hooks)
                   /\ outcome' = IF Len(hooks) = 1 /\ selfQ = <<>> /\ outcome = ""
                                 THEN "ok" ELSE outcome
                   /\ pc' = IF Len(hooks) > 1 THEN "hooks"
                            ELSE IF outcome # "" THEN "failed"
                            ELSE IF selfQ # <<>> THEN "pass2" ELSE "done"
    /\ trace' = Append(trace, "link")
    /\ UNCHANGED <<uniqueTogether, fkNull, seq, seqUndo, fixture, fileIdx, deferredQ, qIdx, selfQ, cells,
                   broken, scopeExits, runs, pre, mainDb, prev, inserted>>
    /\ UNCHANGED <<locVars, dumpVars>>

\* a failed follow-up transaction that keeps its writes: the variant C16 is
\* told apart from
SecondKept(committed, working) == working

\* line 248, exit of the follow-up atomic block with an exception: ROLLBACK
SecondRollback(committed, working) == committed

\* lines 247-268: one queued object of the second pass, in the follow-up
\* transaction; any error rolls that transaction back and leaves handle
SecondPassStep ==
    /\ pc = "pass2"
    /\ qIdx <= Len(selfQ)
    /\ LET r == SecondPass(tx, seq, selfQ[qIdx])
       IN  /\ seq' = r.seq
           /\ IF r.res = "ok"
              THEN /\ tx' = r.st
                   /\ pc' = IF qIdx = Len(selfQ) THEN "commit2" ELSE "pass2"
                   /\ UNCHANGED outcome
              ELSE /\ tx' = SecondRollback(db, tx)
                   /\ outcome' = r.res
                   /\ pc' = "failed"
    /\ qIdx' = qIdx + 1
    /\ trace' = Append(trace, "pass2")
    /\ UNCHANGED <<uniqueTogether, fkNull, db, seqUndo, fixture, fileIdx, deferredQ, selfQ, hooks, cells,
                   broken, scopeExits, runs, pre, mainDb, prev, linkLog, inserted>>
    /\ UNCHANGED <<locVars, dumpVars>>

\* line 248, exit of the follow-up atomic block: COMMIT
SecondCommit ==
    /\ pc = "commit2"
    /\ IF FkOk(tx)
       THEN db' = tx /\ outcome' = "ok" /\ pc' = "done" /\ UNCHANGED tx
       ELSE tx' = SecondRollback(db, tx) /\ outcome' = "IntegrityError" /\ pc' = "failed"
            /\ UNCHANGED db
    /\ trace' = Append(trace, "commit2")
    /\ UNCHANGED <<uniqueTogether, fkNull, seq, seqUndo, fixture, fileIdx, deferredQ, qIdx, selfQ, hooks,
                   cells, broken, scopeExits, runs, pre, mainDb, prev, linkLog, inserted>>
    /\ UNCHANGED <<locVars, dumpVars>>

-----------------------------------------------------------------------------
(* _auto_find_chunk_files_with_abs_path, step by step *)

\* lines 186-187: a token that is not a series is resolved directly; the
\* exception of _get_abs_path_of propagates
ResolveSingle ==
    /\ lpc = "start"
    /\ ~EndsWithMarker(file_name)
    /\ LET r == GetAbsPathOf(cache_walk, file_name)
       IN  IF r = None
           THEN lpc' = "raised" /\ UNCHANGED files
           ELSE lpc' = "returned" /\ files' = <<r[1]>>
    /\ UNCHANGED <<base_dir, cache_walk, file_name, index>>
    /\ UNCHANGED <<loadVars, dumpVars>>

\* lines 189-191: a series token enters the loop
StartSeries ==
    /\ lpc = "start"
    /\ EndsWithMarker(file_name)
    /\ files' = <<>>
    /\ index' = 0
    /\ lpc' = "probe"
    /\ UNCHANGED <<base_dir, cache_walk, file_name>>
    /\ UNCHANGED <<loadVars, dumpVars>>

\* lines 193-203: one turn of the loop; the first name that is not found ends it
ProbeNext ==
    /\ lpc = "probe"
    /\ index <= MaxIndex
    /\ LET r == GetAbsPathOf(cache_walk, ChunkName(BeforeMarker(file_name), index))
       IN  IF r = None
           THEN lpc' = "returned" /\ UNCHANGED <<files, index>>
           ELSE files' = Append(files, r[1]) /\ index' = index + 1 /\ UNCHANGED lpc
    /\ UNCHANGED <<base_dir, cache_walk, file_name>>
    /\ UNCHANGED <<loadVars, dumpVars>>

\* the fixture file at a path: one record without references, named after the
\* last character of the file's name without extension
ContentOf(path) ==
    <<Rec("Node", None, SplitExt(path.name)[Len(SplitExt(path.name))], None, None)>>

\* lines 221-226: every token is resolved before the main transaction is
\* entered with the paths found; an exception of the locator leaves handle at
\* line 223
LoadLocated ==
    /\ lpc = "returned"
    /\ pc = "idle"
    /\ fixture' = [i \in 1..Len(files) |-> ContentOf(files[i])]
    /\ pc' = IF files = <<>> THEN "release" ELSE "insert"
    /\ prev' = [outcome |-> outcome, db |-> db, fixture |-> fixture]
    /\ runs' = runs + 1
    /\ pre' = db /\ tx' = db /\ mainDb' = db /\ seqUndo' = seq
    /\ fileIdx' = 1 /\ deferredQ' = <<>> /\ qIdx' = 1 /\ selfQ' = <<>>
    /\ hooks' = <<>> /\ cells' = <<>> /\ broken' = FALSE /\ scopeExits' = 0
    /\ outcome' = "" /\ linkLog' = <<>> /\ inserted' = [k \in Kinds |-> {}]
    /\ trace' = <<"start">>
    /\ UNCHANGED <<uniqueTogether, fkNull, db, seq>>
    /\ UNCHANGED <<locVars, dumpVars>>

\* the locator, then the load of the files it found
NextLocate ==
    \/ ResolveSingle
    \/ StartSeries
    \/ ProbeNext
    \/ LoadLocated
    \/ BulkCreateFile
    \/ ScopeExit
    \/ MainCommit
    \/ RunHook

SpecLocate == InitLocate /\ [][NextLocate]_vars

-----------------------------------------------------------------------------
(* quick_dump: _get_chunk_instances_from_queryset and Command.handle *)

RECURSIVE OrderById(_)
\* qs.order_by('id'): the rows in ascending id order
OrderById(rows) ==
    IF rows = {} THEN <<>>
    ELSE LET m == CHOOSE r \in rows : \A x \in rows : r.id <= x.id
         IN  <<m>> \o OrderById(rows \ {m})

\* a slice that takes the row at its upper end too: the variant C20 is told
\* apart from
SliceInclusive(s, a, b) == SubSeq(s, a + 1, IF b + 1 < Len(s) THEN b + 1 ELSE Len(s))

\* qs[a:b]
Slice(s, a, b) == SubSeq(s, a + 1, IF b < Len(s) THEN b ELSE Len(s))

\* qs[a:]
SliceFrom(s, a) == SubSeq(s, a + 1, Len(s))

\* serializers.serialize(..., use_natural_primary_keys=True): one entry per
\* row, in the order of the chunk, carrying the natural key and not the id
Serialize(chunk) == [i \in 1..Len(chunk) |-> chunk[i].name]

\* f'{model_name}_{index}.json'
DumpName(m, i) == Json(m \o <<"_">> \o Digits(i))

\* open(save_path, 'w') and write: a file of that name is replaced, otherwise
\* the folder gets a new entry
WriteFile(d, name, content) ==
    IF \E i \in 1..Len(d) : d[i].name = name
    THEN [i \in 1..Len(d) |-> IF d[i].name = name
                               THEN [name |-> name, content |-> content] ELSE d[i]]
    ELSE Append(d, [name |-> name, content |-> content])

MaxSize == 3

\* the table holds at most as many rows as the locator can probe chunks for
MaxRows == MaxIndex - 1

RowNames == <<"c", "a", "d", "b", "f", "e", "h", "g">>

\* the tables that are dumped: rows with distinct ids and natural keys, the
\* keys not in the order of the ids
Tables ==
    {T \in SUBSET {[id |-> i, name |-> RowNames[i]] : i \in 1..(MaxRows + 1)} :
        Cardinality(T) <= MaxRows}

\* what the target folder holds before the dump: nothing, or two files that an
\* earlier dump of the model left
EarlierDumps(m) ==
    {<<>>, <<[name |-> DumpName(m, 2), content |-> <<"z">>],
             [name |-> DumpName(m, 0), content |-> <<"z">>]>>}

\* quick_dump is called for one model
InitDump ==
    /\ fkNull = [k \in Kinds |-> TRUE]
    /\ uniqueTogether = [k \in Kinds |-> FALSE]
    /\ db = EmptyTables /\ tx = db
    /\ seq = [k \in Kinds |-> FreshSeq] /\ seqUndo = seq
    /\ pre = db /\ mainDb = db
    /\ prev = [outcome |-> "", db |-> db, fixture |-> <<>>]
    /\ Idle
    /\ LocIdle
    /\ qs \in Tables
    /\ size \in 1..MaxSize
    /\ start = 0 /\ count = 0 /\ chunk_index = 0
    /\ model_name \in {<<"w">>, <<"a", "b">>}
    /\ save_to \in {"app", "static"}
    /\ disk \in EarlierDumps(model_name)
    /\ dpc = "start"

\* quick_dump.py lines 23-25: the generator starts
DumpStart ==
    /\ dpc = "start"
    /\ start' = 0
    /\ count' = Cardinality(qs)
    /\ chunk_index' = 0
    /\ dpc' = "loop"
    /\ UNCHANGED <<qs, size, model_name, save_to, disk>>
    /\ UNCHANGED <<loadVars, locVars>>

\* quick_dump.py lines 28-31 and 106-127: one chunk of the loop is yielded,
\* serialized and written
DumpChunk ==
    /\ dpc = "loop"
    /\ start < count
    /\ disk' = WriteFile(disk, DumpName(model_name, chunk_index),
                         Serialize(Slice(OrderById(qs), start, start + size)))
    /\ start' = start + size
    /\ chunk_index' = chunk_index + 1
    /\ UNCHANGED <<qs, size, count, model_name, save_to, dpc>>
    /\ UNCHANGED <<loadVars, locVars>>

\* quick_dump.py lines 33-35 and 106-127: after the loop one more chunk is
\* yielded when count >= start, and written; then the generator is exhausted
DumpTail ==
    /\ dpc = "loop"
    /\ ~(start < count)
    /\ IF count >= start
       THEN /\ disk' = WriteFile(disk, DumpName(model_name, chunk_index),
                                 Serialize(SliceFrom(OrderById(qs), start)))
            /\ chunk_index' = chunk_index + 1
       ELSE UNCHANGED <<disk, chunk_index>>
    /\ dpc' = "done"
    /\ UNCHANGED <<qs, size, start, count, model_name, save_to>>
    /\ UNCHANGED <<loadVars, locVars>>

\* quick_load is started on the series of the dumped model: the walk of
\* BASE_DIR is cached when the module is imported
LocateDumped ==
    /\ dpc = "done"
    /\ lpc = "off"
    /\ base_dir' = [files |-> <<>>,
                    dirs |-> <<[name |-> save_to,
                                files |-> [i \in 1..Len(disk) |-> disk[i].name]]>>]
    /\ cache_walk' = WalkUnderDirectory(base_dir')
    /\ file_name' = model_name \o Marker
    /\ files' = <<>> /\ index' = 0
    /\ lpc' = "start"
    /\ UNCHANGED <<loadVars, dumpVars>>

\* the dump of one model, then the locator on <model>_*
NextDump ==
    \/ DumpStart
    \/ DumpChunk
    \/ DumpTail
    \/ LocateDumped
    \/ StartSeries
    \/ ProbeNext

SpecDump == InitDump /\ [][NextDump]_vars

-----------------------------------------------------------------------------
(* the whole command *)

Next ==
    \/ StartRun
    \/ BulkCreateFile
    \/ FirstPassStep
    \/ ScopeExit
    \/ ScopeExitFails
    \/ MainCommit
    \/ MainCommitFails
    \/ MainRollback
    \/ RunHook
    \/ SecondPassStep
    \/ SecondCommit

Spec == Init /\ [][Next]_vars


-----------------------------------------------------------------------------
(* Properties *)

Finished == pc \in {"done", "failed"}

Succeeded == pc = "done" /\ outcome = "ok"

\* the records of a fixture with their positions <<file, index>>
Positions(fx) == {<<f, i>> : f \in 1..Len(fx), i \in 1..2} \cap
                 UNION {{<<f, i>> : i \in 1..Len(fx[f])} : f \in 1..Len(fx)}

RecAt(fx, p) == fx[p[1]][p[2]]

\* the same fixture set was loaded by the run before, which completed
LoadedTwice == runs >= 2 /\ fixture = prev.fixture /\ prev.outcome = "ok"

\* C1: loading the same fixture twice in a row leaves the rows (count per kind,
\* keys, field values) that loading it once left, and the second run ends
\* without error.
C1_LoadTwiceSameRows ==
    (Finished /\ LoadedTwice) => (outcome = "ok" /\ db.rows = prev.db.rows)

\* two records of the self-referencing kind that reference each other
IsCycle(fx) ==
    /\ Cardinality(Positions(fx)) = 2
    /\ \A p \in Positions(fx) : RecAt(fx, p).kind = "Node"
    /\ \A p, q \in Positions(fx) :
          p # q => /\ RecAt(fx, p).name # RecAt(fx, q).name
                   /\ RecAt(fx, p).ref = Some(RecAt(fx, q).name)

\* in store st every record of the cycle points at the row of the other one
CrossLinked(st, fx) ==
    \A p, q \in Positions(fx) :
        p # q => \E r \in st.rows["Node"] :
                    /\ r.name = RecAt(fx, p).name
                    /\ r.ref = Lookup(st, "Node", RecAt(fx, q).name)
                    /\ r.ref # None

\* C2: a fixture of two records A and B of one kind, A referencing B and B
\* referencing A, loads without error and leaves both rows linked to each
\* other, whatever the order of A and B in the file (here: into an empty store).
C2_SelfReferenceConverges ==
    (Finished /\ runs = 1 /\ IsCycle(fixture) /\ pre = EmptyTables)
        => (outcome = "ok" /\ CrossLinked(db, fixture))

\* C3: once the scope is released, the next value of the counter of every kind
\* is greater than every key the load bulk-inserted for that kind.
C3_SequenceAheadAfterRelease ==
    (pc = "commit") =>
        \A k \in Kinds :
            IF inserted[k] = {} THEN TRUE ELSE NextVal(seq[k]) > MaxOf(inserted[k])

\* how often set_m2m applied the associations of the record at position p
TimesLinked(p) == Cardinality({j \in 1..Len(linkLog) : linkLog[j][1] = p})

\* the records whose association descriptors were ready at bulk-insert time
ReadyCarriers ==
    {p \in Positions(fixture) :
        /\ RecAt(fixture, p).tags # None
        /\ \A j \in 1..Len(deferredQ) : deferredQ[j].src # p}

\* C4: when the load has completed, the linker has applied the association set
\* of every record that carries one exactly once (stated here for the records
\* without deferred fields).
C4_EveryCarrierLinkedOnce ==
    Succeeded => \A p \in ReadyCarriers : TimesLinked(p) = 1

\* the ids the names of a record's association descriptor stand for in store st
TargetIds(st, r) == {Lookup(st, M2mTarget(r.kind), n)[1] : n \in r.tags[1]}

\* the association set of the row that carries record r's natural key
LinksOfRecord(st, r) == LinksOf(st, r.kind, Lookup(st, r.kind, r.name)[1])

\* C5: after a completed load, the association set of every row the linker
\* linked is exactly the target set the loaded fixture gives that record,
\* whatever the row was linked to before the load.
C5_LinkingReplaces ==
    Succeeded =>
        \A j \in 1..Len(linkLog) :
            LET r == RecAt(fixture, linkLog[j][1])
            IN  /\ LinksOfRecord(db, r) = linkLog[j][2]
                /\ LinksOfRecord(db, r) = TargetIds(db, r)

\* a record linked to {a, b} by the load before and to {a, c} by this one
C5_Witness ==
    /\ Succeeded /\ runs = 2 /\ prev.outcome = "ok"
    /\ \E j \in 1..Len(linkLog) :
          LET p == linkLog[j][1]
              r == RecAt(fixture, p)
          IN  /\ RecAt(prev.fixture, p).tags = Some({"a", "b"})
              /\ r.tags = Some({"a", "c"})
              /\ LinksOfRecord(prev.db, r) = {1, 2}
              /\ LinksOfRecord(db, r) = {1, 3}

\* the names of the records of kind k in the fixture
NamesOf(fx, k) == {RecAt(fx, p).name : p \in {q \in Positions(fx) : RecAt(fx, q).kind = k}}

\* neither the store nor any file of the load holds a row of kind k named n
Missing(k, n) == Lookup(pre, k, n) = None /\ n \notin NamesOf(fixture, k)

\* the records of the fixture with a reference to a target that appears nowhere
LostReferences ==
    {p \in Positions(fixture) :
        LET r == RecAt(fixture, p)
        IN  \/ r.ref # None /\ Missing(FkTarget(r.kind), r.ref[1])
            \/ r.tags # None /\ \E n \in r.tags[1] : Missing(M2mTarget(r.kind), n)}

\* C6: a load with a reference to a target that is neither in the files nor in
\* the store ends with an error, and the store is as it was before the load.
C6_UnresolvableFails ==
    (Finished /\ LostReferences # {}) => (outcome # "ok" /\ db = pre)

\* such a load failed in the first pass after rows had been inserted
C6_Witness ==
    /\ pc = "failed" /\ LostReferences # {}
    /\ outcome = "DeserializationError"
    /\ \E k \in Kinds : inserted[k] # {}

\* the run ended with an error raised before the main transaction committed
FailedInMain == pc = "failed" /\ "commit" \notin Range(trace)

\* C7: when the run fails inside the main transaction, the store (rows and
\* associations) is what it was before the run, whatever number of files had
\* been inserted.
C7_MainTransactionAtomic ==
    FailedInMain => (db = pre /\ tx = pre)

\* the first file was inserted, the second one failed in bulk_create
C7_Witness ==
    /\ FailedInMain /\ Len(fixture) = 2 /\ fileIdx = 2
    /\ \E k \in Kinds : inserted[k] # {}
    /\ outcome = "TransactionManagementError"

\* the name the spec gives chunk i of the series the token stands for: the
\* token without its marker, then _i
SeriesName(i) == ChunkName(SubSeq(file_name, 1, Len(file_name) - 2), i)

\* some file under the search roots is chunk i of the series
ChunkExists(i) == \E q \in Range(Paths(cache_walk)) : SplitExt(q.name) = SeriesName(i)

\* the smallest index whose file is missing
FirstGap == Min({i \in 0..(MaxIndex + 2) : ~ChunkExists(i)})

\* C8: for a series token the locator returns one path for each of the chunks
\* 0..k-1, in index order, k being the smallest index whose file is missing;
\* a single name that is found resolves to one path.
C8_SeriesDiscovery ==
    (lpc = "returned") =>
        IF EndsWithMarker(file_name)
        THEN /\ Len(files) = FirstGap
             /\ \A i \in 1..Len(files) : SplitExt(files[i].name) = SeriesName(i - 1)
        ELSE Len(files) = 1

\* the same for series whose base name holds no dot
C8_DotlessSeries ==
    ("." \notin Range(file_name)) => C8_SeriesDiscovery

\* chunks 0, 1, 2 found, with a gap at 3
C8_ThreeChunks ==
    /\ lpc = "returned" /\ EndsWithMarker(file_name) /\ Len(files) = 3

\* the queued objects with a deferred foreign key
DeferredFk == {j \in 1..Len(deferredQ) : deferredQ[j].dfk # None}

\* the row of store st that carries the natural key of object o
RowOf(st, o) == RowById(st, o.kind, Lookup(st, o.kind, o.name)[1])

\* C9: a deferred foreign key is bulk-inserted as 0 when the column is NOT NULL
\* and unset when it is nullable; after a completed load the row holds the key
\* of the referenced row and no row the load inserted holds 0.
C9_PlaceholderResolved ==
    /\ \A j \in DeferredFk :
          deferredQ[j].ref = IF fkNull[deferredQ[j].kind] THEN None ELSE Some(0)
    /\ Succeeded =>
          /\ \A j \in DeferredFk :
                LET o == deferredQ[j]
                IN  /\ Lookup(db, o.kind, o.name) # None
                    /\ Lookup(db, FkTarget(o.kind), o.dfk[1]) # None
                    /\ RowOf(db, o).ref = Lookup(db, FkTarget(o.kind), o.dfk[1])
          /\ \A k \in Kinds : \A r \in db.rows[k] :
                r.id \in inserted[k] => r.ref # Some(0)

\* a completed load that inserted a row with the placeholder and patched it
C9_Witness ==
    /\ Succeeded
    /\ \E j \in DeferredFk :
          LET o == deferredQ[j]
          IN  /\ ~fkNull[o.kind] /\ o.ref = Some(0)
              /\ RowOf(db, o).id \in inserted[o.kind]
              /\ RowOf(db, o).ref = Lookup(db, FkTarget(o.kind), o.dfk[1])

\* the main transaction of the run was rolled back
RolledBack == "rollback" \in Range(trace)

\* C10: once the main transaction has rolled back, no linking registered by
\* the run is executed and the associations are those from before the run.
C10_NoLinkingAfterRollback ==
    RolledBack => (linkLog = <<>> /\ db.links = pre.links /\ hooks = <<>>)

\* a rolled-back run that had registered the linking of a record whose row is
\* in the store
C10_Witness ==
    /\ pc = "failed" /\ RolledBack
    /\ \E f \in 1..Len(cells) : \E i \in 1..Len(cells[f].objs) :
          LET o == cells[f].objs[i]
          IN  o.m2m # None /\ Lookup(pre, cells[f].cls, o.name) # None

\* the store raised an error while the scope resynchronized the sequences
ResyncFailed == outcome = "DatabaseError" /\ "release-raised" \in Range(trace)

\* C11: an error of the store during the resynchronization of the sequences
\* does not fail the load: the run still commits its rows and completes.
C11_ResyncErrorKeepsLoad ==
    (Finished /\ ResyncFailed) => (pc = "done" /\ "commit" \in Range(trace))

\* the run has left the scope
ScopeLeft == pc \notin {"idle", "insert", "resolve", "release"}

\* how often phase ph occurs in the trace of the run
Count(ph) == Cardinality({j \in 1..Len(trace) : trace[j] = ph})

\* C12: on every exit from the scope, normal or through an error, the release
\* step (resynchronization, then closing the cursor) has been carried out once.
C12_ReleaseAlwaysExecuted ==
    ScopeLeft => Count("release") = 1

\* the subtrees the search leaves out
ExcludedSubtrees == {"upload", "scripts", "static"}

\* every file of the tree under BASE_DIR, with the folder it is in
AllFiles ==
    {[root |-> <<>>, name |-> n] : n \in Range(base_dir.files)} \cup
    UNION {{[root |-> <<d.name>>, name |-> n] : n \in Range(d.files)} : d \in Range(base_dir.dirs)}

\* the files that may be located: those outside the excluded subtrees
Locatable == {q \in AllFiles : \A j \in 1..Len(q.root) : q.root[j] \notin ExcludedSubtrees}

\* the files whose name without extension is the token without extension
Matching(S) == {q \in S : SplitExt(q.name) = SplitExt(file_name)}

\* C13: a single name that matches no file outside the excluded subtrees makes
\* the locator raise, and then no transaction is opened and no row is written;
\* whatever the locator returns is a file outside the excluded subtrees.
C13_NotFoundAndExcluded ==
    /\ (lpc \in {"returned", "raised"} /\ ~EndsWithMarker(file_name))
          => (lpc = "raised" <=> Matching(Locatable) = {})
    /\ (lpc = "raised")
          => (pc = "idle" /\ trace = <<>> /\ db = EmptyTables /\ tx = EmptyTables)
    /\ \A i \in 1..Len(files) : files[i] \in Locatable

\* the name exists, but only inside an excluded subtree: not found
C13_Witness ==
    /\ lpc = "raised"
    /\ Matching(AllFiles) # {}
    /\ Matching(Locatable) = {}

\* what one turn of the first pass must do with the queued object o, given the
\* result res of save_deferred_fields
FirstPassHandled(o, res) ==
    IF res = "IntegrityError"
    THEN /\ tx' = tx
         /\ selfQ' = Append(selfQ, o)
         /\ outcome' = outcome
         /\ pc' = IF qIdx < Len(deferredQ) THEN "resolve" ELSE "release"
    ELSE IF res = "ok"
    THEN /\ selfQ' = selfQ
         /\ outcome' = outcome
         /\ pc' = IF qIdx < Len(deferredQ) THEN "resolve" ELSE "release"
    ELSE /\ tx' = tx
         /\ selfQ' = selfQ
         /\ outcome' = res
         /\ pc' = "release"

\* C14: an integrity failure of a record in the first pass leaves the tables as
\* they were before that record (the updates of earlier records included),
\* appends the record once to the second-pass queue and lets the pass go on;
\* any other failure ends the pass with that error.
C14_FirstPassFailureHandling ==
    [][(pc = "resolve" /\ qIdx' = qIdx + 1)
          => /\ FirstPassHandled(deferredQ[qIdx], SaveDeferredFields(tx, seq, deferredQ[qIdx]).res)
             /\ \A i, j \in 1..Len(selfQ') : selfQ'[i].src = selfQ'[j].src => i = j]_vars

\* the first record of the pass was updated, the second one failed with an
\* integrity failure and was queued; the update of the first one is still there
C14_Witness ==
    /\ pc \in {"resolve", "release", "commit"}
    /\ outcome = ""
    /\ \E i, j \in 1..Len(deferredQ) :
          /\ i < j /\ j < qIdx
          /\ deferredQ[i] \notin Range(selfQ)
          /\ deferredQ[j] \in Range(selfQ)
          /\ deferredQ[i].dfk # None
          /\ RowOf(tx, deferredQ[i]).ref = Lookup(tx, FkTarget(deferredQ[i].kind), deferredQ[i].dfk[1])
          /\ RowOf(tx, deferredQ[i]).ref # None

\* the trace from the last occurrence of phase ph on
Since(ph) ==
    LET at == {j \in 1..Len(trace) : trace[j] = ph}
    IN  IF at = {} THEN <<>> ELSE SubSeq(trace, MaxOf(at), Len(trace))

\* what one turn of the second pass must do with the queued object o
SecondPassApplied(o) ==
    LET id == Lookup(tx, o.kind, o.name)
    IN  IF id = None
        THEN pc' = "failed" /\ outcome' = "DoesNotExist"
        ELSE IF Unresolvable(tx, o)
        THEN pc' = "failed" /\ outcome' = "DeserializationError"
        ELSE /\ pc' = IF qIdx < Len(selfQ) THEN "pass2" ELSE "commit2"
             /\ Lookup(tx', o.kind, o.name) = id
             /\ {r \in tx'.rows[o.kind] : r.id # id[1]} = {r \in tx.rows[o.kind] : r.id # id[1]}
             /\ RowById(tx', o.kind, id[1]).ref =
                   (IF o.dfk # None THEN Lookup(tx, FkTarget(o.kind), o.dfk[1])
                    ELSE RowById(tx, o.kind, id[1]).ref)
             /\ o.dm2m # None =>
                   LinksOf(tx', o.kind, id[1]) =
                      {Lookup(tx, M2mTarget(o.kind), n)[1] : n \in o.dm2m[1]}

\* the first pass went through its whole queue without a fatal error and the
\* scope was released: the run got as far as the COMMIT of the main transaction
FirstPassCompleted ==
    /\ "release" \in Range(trace)
    /\ "commit" \in Range(trace) \/ (RolledBack /\ outcome = "IntegrityError")

\* C15: the second pass runs if and only if the first pass left a record in
\* the self-reference queue; it starts after the main transaction has
\* committed, works in a transaction of its own, looks each queued record's row
\* up by its unique key and re-applies the deferred fields, and tries each
\* queued record once: no record is tried more than twice in a run.
C15_SecondPassScheduling ==
    /\ [](/\ ((pc \in {"pass2", "commit2"} \/ "pass2" \in Range(trace))
                 => (/\ "commit" \in Range(trace)
                     /\ (pc \in {"pass2", "commit2"} => db.rows = mainDb.rows)
                     /\ Range(Since("commit")) \subseteq {"commit", "link", "pass2", "commit2"}))
           /\ ((Finished /\ FirstPassCompleted) => (selfQ # <<>> <=> "pass2" \in Range(trace)))
           /\ (Succeeded => Count("pass2") = Len(selfQ))
           /\ ((pc = "pass2") => Count("pass2") = qIdx - 1)
           /\ Count("pass2") <= Len(selfQ)
           /\ Count("resolve") <= Len(deferredQ)
           /\ \A i \in 1..Len(selfQ) :
                 /\ selfQ[i] \in Range(deferredQ)
                 /\ \A j \in 1..Len(selfQ) : selfQ[i].src = selfQ[j].src => i = j)
    /\ [][(pc = "pass2") => (db' = db /\ qIdx' = qIdx + 1 /\ selfQ' = selfQ
                              /\ SecondPassApplied(selfQ[qIdx]))]_vars

\* what holds of the second pass: for kinds with a single unique column, and
\* for the runs that complete
C15_SingleKeyCompleted ==
    /\ [](/\ ((pc \in {"pass2", "commit2"} \/ "pass2" \in Range(trace))
                 => (/\ selfQ # <<>>
                     /\ "commit" \in Range(trace)
                     /\ (pc \in {"pass2", "commit2"} => db.rows = mainDb.rows)
                     /\ Range(Since("commit")) \subseteq {"commit", "link", "pass2", "commit2"}))
           /\ ((pc = "done") => Count("pass2") = Len(selfQ))
           /\ Count("pass2") <= Len(selfQ)
           /\ Count("resolve") <= Len(deferredQ))
    /\ [][(pc = "pass2" /\ ~uniqueTogether[selfQ[qIdx].kind])
             => (db' = db /\ qIdx' = qIdx + 1 /\ selfQ' = selfQ
                 /\ SecondPassApplied(selfQ[qIdx]))]_vars

\* a completed run whose second pass re-applied the references of two queued
\* records, each of them tried once in either pass
C15_TwoReapplied ==
    /\ Succeeded
    /\ Len(selfQ) = 2
    /\ Count("pass2") = 2 /\ Count("resolve") = Len(deferredQ)
    /\ \A i \in 1..2 :
          /\ selfQ[i].dfk # None
          /\ RowOf(mainDb, selfQ[i]).ref = None
          /\ RowOf(db, selfQ[i]).ref = Lookup(db, FkTarget(selfQ[i].kind), selfQ[i].dfk[1])

\* the second pass met a kind that declares unique_together
C15_TupleKeyMet ==
    /\ pc = "failed" /\ outcome = "TypeError"
    /\ "pass2" \in Range(trace)

\* the main COMMIT failed although the first pass had queued a record
C15_QueuedNeverRun ==
    /\ Finished /\ FirstPassCompleted
    /\ selfQ # <<>>
    /\ "pass2" \notin Range(trace)

\* the run ended with an error raised inside the follow-up transaction
SecondPassFailed == pc = "failed" /\ "pass2" \in Range(trace)

\* C16: an error raised in the second pass reaches the caller and undoes every
\* update of the follow-up transaction, those of the records resolved earlier
\* in the pass included, while the rows and links the main load committed stay.
C16_SecondPassErrorIsolation ==
    /\ [](SecondPassFailed
             => (/\ outcome \notin {"", "ok"}
                 /\ tx = db
                 /\ db.rows = mainDb.rows
                 /\ "rollback" \notin Range(trace)))
    /\ [][(pc \in {"pass2", "commit2"} /\ pc' = "failed") => (db' = db /\ tx' = db)]_vars

\* the second pass failed on its second record after it had set the reference
\* of the first one; that update is gone, the rows of the main load are there
C16_Witness ==
    /\ SecondPassFailed
    /\ Count("pass2") = 2
    /\ mainDb.rows # pre.rows
    /\ selfQ[1].dfk # None
    /\ Lookup(db, FkTarget(selfQ[1].kind), selfQ[1].dfk[1]) # None
    /\ RowOf(db, selfQ[1]).ref = None

\* the position in the trace of the first linking of the run
FirstLink == Min({j \in 1..Len(trace) : trace[j] = "link"})

\* how often phase ph occurs before the first linking
Before(ph) == Cardinality({j \in 1..(FirstLink - 1) : trace[j] = ph})

\* every file was bulk-inserted and the first pass and the scope were finished
\* before the first linking
InsertedAndResolvedFirst ==
    /\ Before("insert") = Len(fixture)
    /\ Before("resolve") = Len(deferredQ)
    /\ Before("release") = 1

\* C17 as stated: linking happens only after all files were bulk-inserted and
\* after deferred resolution has finished: after the first pass and, when the
\* second pass runs, after the second pass.
C17_LinkingAfterBothPasses ==
    (linkLog # <<>>)
       => (/\ InsertedAndResolvedFirst
           /\ selfQ # <<>> => Before("pass2") = Len(selfQ))

\* C17, amended: linking happens only after all files were bulk-inserted, the
\* first pass has finished and the main transaction has committed; it happens
\* before the second pass, which starts only when no linking is left.
C17_LinkingBetweenPasses ==
    /\ ("link" \in Range(trace))
          => (/\ InsertedAndResolvedFirst
              /\ Before("commit") = 1
              /\ Before("pass2") = 0)
    /\ (pc \in {"pass2", "commit2"} \/ "pass2" \in Range(trace))
          => (hooks = <<>> /\ "link" \notin Range(Since("pass2")))

\* a completed run that linked a record and then ran the second pass
C17_Witness ==
    /\ Succeeded
    /\ linkLog # <<>>
    /\ Count("pass2") >= 1
    /\ FirstLink < Min({j \in 1..Len(trace) : trace[j] = "pass2"})

\* record rec names, as foreign key or as association, a row that store st
\* does not hold
DeferredAt(st, rec) ==
    \/ rec.ref # None /\ Lookup(st, FkTarget(rec.kind), rec.ref[1]) = None
    \/ rec.tags # None /\ \E n \in rec.tags[1] : Lookup(st, M2mTarget(rec.kind), n) = None

\* the value of counter s after n draws
RECURSIVE Drawn(_, _)
Drawn(s, n) == IF n = 0 THEN s ELSE Drawn(AfterNextVal(s), n - 1)

\* what the bulk insert of file f, which did not raise, must have done
FileSubmitted(f) ==
    LET file == fixture[f]
        at == 1..Len(file)
        new == SubSeq(deferredQ', Len(deferredQ) + 1, Len(deferredQ'))
    IN  /\ deferredQ' = deferredQ \o new
        /\ {new[j].src : j \in 1..Len(new)} = {<<f, i>> : i \in {i \in at : DeferredAt(tx, file[i])}}
        /\ Len(new) = Cardinality({i \in at : DeferredAt(tx, file[i])})
        /\ \A j \in 1..Len(new) : new[j].name = file[new[j].src[2]].name
        /\ \A k \in Kinds :
              seq'[k] = Drawn(seq[k], Cardinality({i \in at : file[i].kind = k /\ file[i].pk = None
                                                               /\ Lookup(tx, k, file[i].name) = None}))
        /\ \A i \in at :
              \/ Lookup(tx', file[i].kind, file[i].name) # None
              \/ file[i].pk # None /\ file[i].pk[1] \in Ids(tx', file[i].kind)
              \/ file[i].pk = None /\ Ids(tx', file[i].kind) # {}
        /\ \A i, j \in at :
              (/\ i < j /\ file[i].kind = file[j].kind
               /\ file[i].pk = None /\ file[j].pk = None
               /\ Lookup(tx, file[i].kind, file[i].name) = None
               /\ Lookup(tx, file[j].kind, file[j].name) = None
               /\ Lookup(tx', file[i].kind, file[i].name) # None
               /\ Lookup(tx', file[j].kind, file[j].name) # None)
                 => Lookup(tx', file[i].kind, file[i].name)[1] < Lookup(tx', file[j].kind, file[j].name)[1]

\* C18: every record of a file is submitted to the conflict-skipping insert of
\* its kind in file order; the list handed to the first pass holds exactly the
\* records of the file with a deferred field, each once, also those whose row
\* was skipped; a first pass that meets no fatal error processes all of them.
C18_BulkInserterResult ==
    /\ [][(pc = "insert" /\ fileIdx' = fileIdx + 1) => FileSubmitted(fileIdx)]_vars
    /\ []((pc \in {"release", "commit"} /\ outcome = "")
             => (qIdx = Len(deferredQ) + 1 /\ Count("resolve") = Len(deferredQ)))

\* a file with a record whose row was skipped (its key was in the store) but
\* which has a deferred field and is queued, next to a record that is not
\* queued; the first pass went through the whole queue
C18_Witness ==
    /\ pc = "commit" /\ outcome = ""
    /\ deferredQ # <<>>
    /\ qIdx = Len(deferredQ) + 1
    /\ \E j \in 1..Len(deferredQ) :
          LET o == deferredQ[j]
          IN  /\ Lookup(pre, o.kind, o.name) # None
              /\ \E i \in 1..Len(fixture[o.src[1]]) : <<o.src[1], i>> \notin {q.src : q \in Range(deferredQ)}

\* the counter of kind k is one the release has to restart
MustRestart(k) == seq[k].last = 1 /\ Ids(tx, k) # {}

\* C19: the release changes a table's counter only when its current value is 1
\* and the table has a row, and then sets it to the greatest id plus 1; in
\* every other case the counter stays, so the release never lowers a counter.
C19_ResyncFrame ==
    [][(pc = "release")
          => \A k \in Kinds :
                /\ seq'[k] # seq[k]
                      => (MustRestart(k) /\ NextVal(seq'[k]) = MaxOf(Ids(tx, k)) + 1)
                /\ (MustRestart(k) /\ pc' = "commit")
                      => NextVal(seq'[k]) = MaxOf(Ids(tx, k)) + 1
                /\ NextVal(seq'[k]) >= NextVal(seq[k])]_vars

\* after a release: one counter stood at 1 over a table with rows and was moved
\* past the greatest id, another one stood elsewhere over rows and was kept
C19_Witness ==
    /\ pc = "commit"
    /\ \E k, j \in Kinds :
          /\ seqUndo[k].last = 1 /\ Ids(tx, k) # {}
          /\ NextVal(seq[k]) = MaxOf(Ids(tx, k)) + 1
          /\ seq[k] # seqUndo[k]
          /\ seqUndo[j].last # 1 /\ Ids(tx, j) # {}
          /\ seq[j] = seqUndo[j]

\* the content of the file the dump wrote for chunk i
ChunkFile(i) ==
    LET at == {j \in 1..Len(disk) : disk[j].name = DumpName(model_name, i)}
    IN  disk[CHOOSE j \in at : TRUE].content

RECURSIVE Concatenated(_)
\* the chunks 0..(k-1) one after the other
Concatenated(k) == IF k = 0 THEN <<>> ELSE Concatenated(k - 1) \o ChunkFile(k - 1)

\* the natural keys of the rows in ascending id order, computed from the ids
KeysById ==
    LET ids == {r.id : r \in qs}
        rank(i) == Cardinality({j \in ids : j <= i})
    IN  [p \in 1..Cardinality(qs) |-> (CHOOSE r \in qs : rank(r.id) = p).name]

\* C20: the dump of n rows with chunk size s writes the files <model>_0,
\* <model>_1, ... with contiguous indices from 0; each holds at most s rows and
\* one after the other they hold every row once, in ascending id order, also
\* for n = 0 and n a multiple of s; the series discovery on <model>_* over a
\* tree that holds the target folder finds every file written, in index order.
C20_DumpChunking ==
    /\ (dpc \in {"loop", "done"})
          => (/\ \A i \in 0..(chunk_index - 1) :
                    /\ \E j \in 1..Len(disk) : disk[j].name = DumpName(model_name, i)
                    /\ Len(ChunkFile(i)) <= size
              /\ Concatenated(chunk_index) = SubSeq(KeysById, 1, Len(Concatenated(chunk_index))))
    /\ (dpc = "done")
          => (/\ chunk_index >= 1
              /\ Concatenated(chunk_index) = KeysById)
    /\ (lpc = "returned" /\ dpc = "done" /\ save_to \notin Excludes)
          => (/\ Len(files) >= chunk_index
              /\ \A i \in 0..(chunk_index - 1) :
                    files[i + 1] = [root |-> <<save_to>>, name |-> DumpName(model_name, i)])

\* a table whose row count is a multiple of the chunk size: two full chunks
\* and an empty one were written, and the locator has found the three files
C20_Witness ==
    /\ dpc = "done" /\ lpc = "returned"
    /\ count = 2 * size /\ size >= 1 /\ count > 0
    /\ chunk_index = 3
    /\ ChunkFile(2) = <<>>
    /\ Len(files) = 3

====
